---- MODULE Spec2Model ----
(***************************************************************************)
(* Model of taylor/integrity.py (djf604/taylor): the file size check, the  *)
(* md5 check (whole-object and segment-by-segment) and check_integrity.    *)
(*                                                                         *)
(* Text is a sequence of one-character strings, so that the regular        *)
(* expression searches, strip(), split() and int() of the source are       *)
(* computed on characters.  The interpreter is Python 2.7 (setup.py): a    *)
(* file opened 'rb' reads str, and '' is the end-of-file sentinel.         *)
(***************************************************************************)
EXTENDS Integers, Sequences, FiniteSets

(* ------------------------------ bounds -------------------------------- *)
MaxFileLen == 3
MaxSegs == 3

Bytes == {0, 1}
Hints == {-1, 0, 1, 2}

(* --------------------------- character classes ------------------------ *)
Whitespace == {" ", "\n", "\t"}
DigitChars == {"0", "1", "2", "3", "4", "5", "6", "7", "8", "9"}
LowerChars == {"a", "b", "c", "d", "e", "f", "g", "h", "i", "j", "k", "l", "m",
               "n", "o", "p", "q", "r", "s", "t", "u", "v", "w", "x", "y", "z"}
UpperChars == {"A", "B", "C", "D", "E", "F", "G", "H", "I", "J", "K", "L", "M",
               "N", "O", "P", "Q", "R", "S", "T", "U", "V", "W", "X", "Y", "Z"}
CharUniverse == Whitespace \cup DigitChars \cup LowerChars \cup UpperChars
                  \cup {"_", ":", "/", "-", "+", "."}

\* the classes \d, \w and \S of Python's re module
ClassD == DigitChars
ClassW == DigitChars \cup LowerChars \cup UpperChars \cup {"_"}
ClassNotS == CharUniverse \ Whitespace

(* ------------------------------ outcomes ------------------------------ *)
\* a call either returns a bool or raises; Pending is "has not finished"
Pending == [kind |-> "pending", value |-> FALSE, exc |-> "none"]
Return(b) == [kind |-> "return", value |-> b, exc |-> "none"]
Raise(e) == [kind |-> "raise", value |-> FALSE, exc |-> e]

(* --------------------------- text primitives -------------------------- *)
Min(a, b) == IF a < b THEN a ELSE b

\* text[i..] starts with the literal lit
StartsWithAt(text, i, lit) ==
    /\ i + Len(lit) - 1 <= Len(text)
    /\ \A k \in 1..Len(lit) : text[i + k - 1] = lit[k]

\* the length of the longest run of characters of class cls from position i
RECURSIVE RunLen(_, _, _)
RunLen(text, i, cls) ==
    IF i > Len(text) \/ text[i] \notin cls THEN 0
    ELSE 1 + RunLen(text, i + 1, cls)

\* one attempt of  <lit>\s+(<cls>+)  anchored at position i
MatchAt(text, i, lit, cls) ==
    LET ws == IF StartsWithAt(text, i, lit)
              THEN RunLen(text, i + Len(lit), Whitespace) ELSE 0
        g0 == i + Len(lit) + ws
        gl == IF ws > 0 THEN RunLen(text, g0, cls) ELSE 0
    IN [matched |-> gl > 0,
        group |-> IF gl > 0 THEN SubSeq(text, g0, g0 + gl - 1) ELSE <<>>]

\* re.search(r'<lit>\s+(<cls>+)', text): the leftmost match, or None
\* (matched = FALSE).  \s+ and the group's class are disjoint in the three
\* patterns of the source, so the greedy match never backtracks.
re_search(lit, cls, text) ==
    LET hits == {i \in 1..Len(text) : MatchAt(text, i, lit, cls).matched}
    IN IF hits = {} THEN [matched |-> FALSE, group |-> <<>>]
       ELSE MatchAt(text, CHOOSE i \in hits : \A j \in hits : i <= j, lit, cls)

\* str.strip()
strip(text) ==
    LET keep == {i \in 1..Len(text) : text[i] \notin Whitespace}
    IN IF keep = {} THEN <<>>
       ELSE SubSeq(text, CHOOSE i \in keep : \A j \in keep : i <= j,
                         CHOOSE i \in keep : \A j \in keep : i >= j)

\* str.split(): the maximal runs of non-whitespace characters, in order
RECURSIVE split_from(_, _)
split_from(text, i) ==
    IF i > Len(text) THEN <<>>
    ELSE IF text[i] \in Whitespace THEN split_from(text, i + 1)
    ELSE LET n == RunLen(text, i, CharUniverse \ Whitespace)
         IN <<SubSeq(text, i, i + n - 1)>> \o split_from(text, i + n)

split(text) == split_from(text, 1)

\* str.split(sep) for a one-character separator: fields may be empty
RECURSIVE split_sep_from(_, _, _)
split_sep_from(text, i, sep) ==
    LET n == RunLen(text, i, CharUniverse \ {sep})
    IN IF i + n > Len(text) THEN <<SubSeq(text, i, i + n - 1)>>
       ELSE <<SubSeq(text, i, i + n - 1)>> \o split_sep_from(text, i + n + 1, sep)

split_sep(text, sep) == split_sep_from(text, 1, sep)

DigitValue(c) ==
    CASE c = "0" -> 0 [] c = "1" -> 1 [] c = "2" -> 2 [] c = "3" -> 3
      [] c = "4" -> 4 [] c = "5" -> 5 [] c = "6" -> 6 [] c = "7" -> 7
      [] c = "8" -> 8 [] c = "9" -> 9

RECURSIVE DecimalValue(_)
DecimalValue(digits) ==
    IF digits = <<>> THEN 0
    ELSE 10 * DecimalValue(SubSeq(digits, 1, Len(digits) - 1))
           + DigitValue(digits[Len(digits)])

\* int(s) for a str: surrounding whitespace, an optional sign, then digits
IntBody(text) ==
    LET t == strip(text)
    IN IF t # <<>> /\ t[1] \in {"+", "-"} THEN SubSeq(t, 2, Len(t)) ELSE t

IsIntLiteral(text) ==
    /\ IntBody(text) # <<>>
    /\ \A k \in 1..Len(IntBody(text)) : IntBody(text)[k] \in DigitChars

int(text) ==
    LET t == strip(text)
    IN IF t[1] = "-" THEN 0 - DecimalValue(IntBody(text))
       ELSE DecimalValue(IntBody(text))

\* lower-casing of hexadecimal text
ToLowerChar(c) ==
    CASE c = "A" -> "a" [] c = "B" -> "b" [] c = "C" -> "c" [] c = "D" -> "d"
      [] c = "E" -> "e" [] c = "F" -> "f" [] OTHER -> c
ToLower(text) == [i \in 1..Len(text) |-> ToLowerChar(text[i])]

(* ------------------------- hashlib.md5 / file I/O --------------------- *)
HexDigit(n) ==
    CASE n = 0 -> "0" [] n = 1 -> "1" [] n = 2 -> "2" [] n = 3 -> "3"
      [] n = 4 -> "4" [] n = 5 -> "5" [] n = 6 -> "6" [] n = 7 -> "7"
      [] n = 8 -> "8" [] n = 9 -> "9" [] n = 10 -> "a" [] n = 11 -> "b"
      [] n = 12 -> "c" [] n = 13 -> "d" [] n = 14 -> "e" [] n = 15 -> "f"

\* the bytes read as a binary number after a leading 1: one number per
\* byte string over Bytes
RECURSIVE CodeOf(_)
CodeOf(data) ==
    IF data = <<>> THEN 1
    ELSE 2 * CodeOf(SubSeq(data, 1, Len(data) - 1)) + data[Len(data)]

\* md5(data).hexdigest(): a fixed-width lower-case hexadecimal text.  The
\* digest is modelled as collision-free (distinct data, distinct digest) on
\* the byte strings of the model; two hex digits hold every code below 256.
md5_hexdigest(data) ==
    <<HexDigit((CodeOf(data) \div 16) % 16), HexDigit(CodeOf(data) % 16)>>

\* os.path.getsize(local_filepath)
getsize(file) == Len(file)

\* a read that takes size 0 for "everything", as a negative size is
file_read_zero_reads_all(file, pos, n) ==
    IF n <= 0 THEN SubSeq(file, pos + 1, Len(file))
    ELSE SubSeq(file, pos + 1, Min(pos + n, Len(file)))

\* file.read(n) at offset pos: at most n bytes for n > 0, nothing for n = 0,
\* everything that is left for n < 0
file_read(file, pos, n) ==
    IF n < 0 THEN SubSeq(file, pos + 1, Len(file))
    ELSE SubSeq(file, pos + 1, Min(pos + n, Len(file)))

(* --------------------------- the patterns ----------------------------- *)
ContentLengthLit ==
    <<"C", "o", "n", "t", "e", "n", "t", " ", "L", "e", "n", "g", "t", "h", ":">>
ManifestLit == <<"M", "a", "n", "i", "f", "e", "s", "t", ":">>
ETagLit == <<"E", "T", "a", "g", ":">>

\* content_length_re = r'Content Length:\s+(\d+)'
content_length_search(text) == re_search(ContentLengthLit, ClassD, text)
\* manifest_re = r'Manifest:\s+(\S+)'
manifest_search_of(text) == re_search(ManifestLit, ClassNotS, text)
\* etag_re = r'ETag:\s+(\w+)'
etag_search_of(text) == re_search(ETagLit, ClassW, text)

(* ------------------- the object store (swift stat/list) --------------- *)
object_container == "c"
object_name == "o"
None == "None"

\* one line of `swift stat` output: label, whitespace, value, newline
StatLine(lit, gap, value) == <<" ">> \o lit \o gap \o value \o <<"\n">>

ContentTypeLine ==
    <<"C", "o", "n", "t", "e", "n", "t", " ", "T", "y", "p", "e", ":", " ",
      "b", "i", "n", "\n">>

\* the outputs `swift stat c o` may give: nothing; no Content Length; plain
\* objects with their ETag (one in upper case, padded with whitespace); an
\* object with neither Manifest nor ETag; a segmented object (Manifest, and
\* the manifest's own ETag as swift prints it)
ObjectStats ==
    { <<>>,
      StatLine(ETagLit, <<" ">>, md5_hexdigest(<<0, 1, 0>>)),
      StatLine(ContentLengthLit, <<" ">>, <<"0">>)
        \o StatLine(ETagLit, <<" ">>, md5_hexdigest(<<>>)),
      StatLine(ContentLengthLit, <<" ">>, <<"3">>)
        \o StatLine(ETagLit, <<" ">>, md5_hexdigest(<<0, 1, 0>>)),
      StatLine(ContentLengthLit, <<" ">>, <<"0", "3">>)
        \o StatLine(ETagLit, <<" ", " ">>, <<"0", "A", " ">>),
      StatLine(ContentLengthLit, <<" ">>, <<"2">>)
        \o StatLine(ETagLit, <<"\t">>, md5_hexdigest(<<1, 1>>) \o <<" ">>),
      StatLine(ContentLengthLit, <<" ">>, <<"3">>) \o ContentTypeLine,
      StatLine(ContentLengthLit, <<" ">>, <<"2">>)
        \o StatLine(ManifestLit, <<" ">>, <<"c", "_", "s", "/", "o">>)
        \o StatLine(ETagLit, <<" ">>, <<"f", "f">>) }

\* the segment objects the two segment containers may hold, each with the
\* output of `swift stat` for it.  The name's second-to-last component is
\* the segment size of the upload.  In c_segments, o/1/1 and o/1/2 have the
\* same content and o/0/0 names size 0; alt holds another upload (the same
\* name o/2/0, another content) and three irregular objects: a size that is
\* no number, a name without '/', and a stat output without ETag.
SegmentObjects ==
    { [container |-> "c_segments", name |-> <<"o", "/", "1", "/", "0">>,
       stat |-> StatLine(ETagLit, <<" ">>, md5_hexdigest(<<0>>))],
      [container |-> "c_segments", name |-> <<"o", "/", "1", "/", "1">>,
       stat |-> StatLine(ETagLit, <<" ">>, md5_hexdigest(<<1>>))],
      [container |-> "c_segments", name |-> <<"o", "/", "1", "/", "2">>,
       stat |-> StatLine(ETagLit, <<" ">>, md5_hexdigest(<<1>>))],
      [container |-> "c_segments", name |-> <<"o", "/", "2", "/", "0">>,
       stat |-> StatLine(ETagLit, <<" ">>, md5_hexdigest(<<0, 1>>))],
      [container |-> "c_segments", name |-> <<"o", "/", "0", "/", "0">>,
       stat |-> StatLine(ETagLit, <<" ">>, md5_hexdigest(<<0>>))],
      [container |-> "alt", name |-> <<"o", "/", "2", "/", "0">>,
       stat |-> StatLine(ETagLit, <<" ">>, md5_hexdigest(<<1, 0>>))],
      [container |-> "alt", name |-> <<"o", "/", "2", "/", "1">>,
       stat |-> StatLine(ETagLit, <<" ">>, md5_hexdigest(<<1>>))],
      [container |-> "alt", name |-> <<"o", "/", "x", "/", "0">>,
       stat |-> StatLine(ETagLit, <<" ">>, md5_hexdigest(<<1>>))],
      [container |-> "alt", name |-> <<"o", "0">>,
       stat |-> StatLine(ETagLit, <<" ">>, md5_hexdigest(<<1, 0>>))],
      [container |-> "alt", name |-> <<"o", "/", "2", "/", "3">>,
       stat |-> StatLine(ContentLengthLit, <<" ">>, <<"1">>)] }

SegmentNames(container) ==
    {o.name : o \in {x \in SegmentObjects : x.container = container}}

SegmentObject(container, segment) ==
    CHOOSE o \in SegmentObjects : o.container = container /\ o.name = segment

\* subprocess.check_output('swift stat <container> <segment>')
swift_stat_segment(container, segment) == SegmentObject(container, segment).stat

\* re.search(etag_re, <swift stat of the segment>), for every segment object
SegmentETagSearch == [o \in SegmentObjects |-> etag_search_of(o.stat)]

segment_etag_search(container, segment) ==
    SegmentETagSearch[SegmentObject(container, segment)]

\* what `swift list <container> --prefix <object>` may print: up to MaxSegs
\* distinct segment names, one per line
RECURSIVE JoinLines(_)
JoinLines(names) ==
    IF names = <<>> THEN <<>>
    ELSE Head(names) \o <<"\n">> \o JoinLines(Tail(names))

Listings(container) ==
    {l \in UNION {[1..n -> SegmentNames(container)] : n \in 0..MaxSegs} :
        \A i, j \in DOMAIN l : i # j => l[i] # l[j]}

LocalFiles == UNION {[1..n -> Bytes] : n \in 0..MaxFileLen}

SegmentContainerArgs == {None, "alt"}

(* ------------------- the functions, as pure operators ----------------- *)
\* a size check that accepts a local file no longer than the remote object
filesize_outcome_at_most(stat, file) ==
    IF stat = <<>> THEN Raise("ValueError")
    ELSE IF ~content_length_search(stat).matched THEN Raise("AttributeError")
    ELSE Return(getsize(file) <= int(content_length_search(stat).group))

\* filesize_check, lines 102-111, on the stat output and the local file
filesize_outcome(stat, file) ==
    IF stat = <<>> THEN Raise("ValueError")
    ELSE IF ~content_length_search(stat).matched THEN Raise("AttributeError")
    ELSE Return(int(content_length_search(stat).group) = getsize(file))

\* line 170: the override if it is truthy, else <object_container>_segments
resolve_segment_container(arg) ==
    IF arg # None /\ arg # "" THEN arg ELSE object_container \o "_segments"

\* lines 177-186: the set comprehension over the segments' ETags; a segment
\* whose stat has no ETag makes re.search return None -> AttributeError
segments_have_etag(container, segs) ==
    \A i \in 1..Len(segs) : segment_etag_search(container, segs[i]).matched

remote_segment_md5s_of(container, segs) ==
    {strip(segment_etag_search(container, segs[i]).group) : i \in 1..Len(segs)}

\* the size taken from the last component, [-1], instead of [-2]
segment_size_of_last_component(size_arg, segs) ==
    IF size_arg # 0 THEN [exc |-> "none", size |-> size_arg]
    ELSE IF segs = <<>> THEN [exc |-> "IndexError", size |-> 0]
    ELSE LET parts == split_sep(segs[1], "/")
         IN IF ~IsIntLiteral(parts[Len(parts)])
            THEN [exc |-> "ValueError", size |-> 0]
            ELSE [exc |-> "none", size |-> int(parts[Len(parts)])]

\* the size always taken from the first segment's name, the argument ignored
segment_size_of_ignores_argument(size_arg, segs) ==
    IF segs = <<>> THEN [exc |-> "IndexError", size |-> 0]
    ELSE LET parts == split_sep(segs[1], "/")
         IN IF Len(parts) < 2 THEN [exc |-> "IndexError", size |-> 0]
            ELSE IF ~IsIntLiteral(parts[Len(parts) - 1])
                 THEN [exc |-> "ValueError", size |-> 0]
            ELSE [exc |-> "none", size |-> int(parts[Len(parts) - 1])]

\* an empty listing guarded with a default size instead of segments[0]
segment_size_of_empty_default(size_arg, segs) ==
    IF size_arg # 0 THEN [exc |-> "none", size |-> size_arg]
    ELSE IF segs = <<>> THEN [exc |-> "none", size |-> 0]
    ELSE LET parts == split_sep(segs[1], "/")
         IN IF Len(parts) < 2 THEN [exc |-> "IndexError", size |-> 0]
            ELSE IF ~IsIntLiteral(parts[Len(parts) - 1])
                 THEN [exc |-> "ValueError", size |-> 0]
            ELSE [exc |-> "none", size |-> int(parts[Len(parts) - 1])]

\* line 189: int(segment_size) if segment_size else
\*           int(segments[0].split('/')[-2])
segment_size_of(size_arg, segs) ==
    IF size_arg # 0 THEN [exc |-> "none", size |-> size_arg]
    ELSE IF segs = <<>> THEN [exc |-> "IndexError", size |-> 0]
    ELSE LET parts == split_sep(segs[1], "/")
         IN IF Len(parts) < 2 THEN [exc |-> "IndexError", size |-> 0]
            ELSE IF ~IsIntLiteral(parts[Len(parts) - 1])
                 THEN [exc |-> "ValueError", size |-> 0]
            ELSE [exc |-> "none", size |-> int(parts[Len(parts) - 1])]

\* lines 192-195: iter(partial(local_file.read, segment_size), '') and the
\* digest of every chunk read
RECURSIVE local_segment_md5s_from(_, _, _)
local_segment_md5s_from(file, pos, size) ==
    LET local_seg == file_read(file, pos, size)
    IN IF local_seg = <<>> THEN {}
       ELSE {strip(md5_hexdigest(local_seg))}
              \cup local_segment_md5s_from(file, pos + Len(local_seg), size)

\* every local digest found among the remote ones, instead of equality
segment_sets_equal_subset(local_md5s, remote_md5s) == local_md5s \subseteq remote_md5s

\* line 198
segment_sets_equal(local_md5s, remote_md5s) == local_md5s = remote_md5s

\* lines 176-198 as a whole: the outcome of the segmented path for a local
\* file, a segment size argument, the resolved segment container and the
\* listing the lister returned
md5_check_segmented(file, size_arg, container, segs) ==
    IF ~segments_have_etag(container, segs) THEN Raise("AttributeError")
    ELSE IF segment_size_of(size_arg, segs).exc # "none"
         THEN Raise(segment_size_of(size_arg, segs).exc)
    ELSE Return(segment_sets_equal(
                  local_segment_md5s_from(file, 0, segment_size_of(size_arg, segs).size),
                  remote_segment_md5s_of(container, segs)))

\* a comparison that ignores letter case
whole_md5_equal_ignoring_case(local_md5, remote) == ToLower(local_md5) = ToLower(remote)

\* line 166
whole_md5_equal(local_md5, remote) == local_md5 = remote

(* ------------------------------- state -------------------------------- *)
VARIABLES
    entry,               \* the function the caller invoked
    local_file,          \* the bytes of the file at local_filepath
    swift_object_stat,   \* what `swift stat c o` prints (the remote object)
    hint,                \* the segment_size argument
    segment_container,   \* the argument, then the resolved container
    pc,                  \* position in the code
    object_stat,         \* the local variable object_stat
    remote_md5,          \* line 160
    segments,            \* line 171
    remote_segment_md5s, \* line 178
    segment_size,        \* line 189
    local_segment_md5s,  \* line 192
    file_open,           \* the with-block holds local_file open
    file_pos,            \* offset of the open file
    reads,               \* the length of what each read() returned
    calls,               \* remote calls and file reads, in order
    size_result,         \* outcome of filesize_check
    md5_result,          \* outcome of md5_check
    result               \* outcome of the entry function

vars == <<entry, local_file, swift_object_stat, hint, segment_container, pc,
          object_stat, remote_md5, segments, remote_segment_md5s, segment_size,
          local_segment_md5s, file_open, file_pos, reads, calls, size_result,
          md5_result, result>>

inputs == <<entry, local_file, swift_object_stat, hint>>
md5_locals == <<remote_md5, segments, remote_segment_md5s, segment_size,
                local_segment_md5s, file_open, file_pos, reads>>

Entries == {"filesize_check", "md5_check", "check_integrity"}

Call(by, op, target) == [by |-> by, op |-> op, target |-> target]

Init ==
    /\ entry \in Entries
    /\ local_file \in LocalFiles
    /\ swift_object_stat \in ObjectStats
    /\ hint \in Hints
    /\ segment_container \in SegmentContainerArgs
    /\ pc = "call"
    /\ object_stat = <<>>
    /\ remote_md5 = <<>>
    /\ segments = <<>>
    /\ remote_segment_md5s = {}
    /\ segment_size = hint
    /\ local_segment_md5s = {}
    /\ file_open = FALSE
    /\ file_pos = 0
    /\ reads = <<>>
    /\ calls = <<>>
    /\ size_result = Pending
    /\ md5_result = Pending
    /\ result = Pending

(* --------------------------- check_integrity -------------------------- *)
\* a direct call of filesize_check
CallFilesizeCheck ==
    /\ pc = "call" /\ entry = "filesize_check"
    /\ pc' = "fs_stat"
    /\ UNCHANGED <<inputs, segment_container, object_stat, md5_locals, calls,
                   size_result, md5_result, result>>

\* a direct call of md5_check
CallMd5Check ==
    /\ pc = "call" /\ entry = "md5_check"
    /\ pc' = "md5_stat"
    /\ UNCHANGED <<inputs, segment_container, object_stat, md5_locals, calls,
                   size_result, md5_result, result>>

\* check_integrity, line 73: the left operand of `and` is evaluated first
CallCheckIntegrity ==
    /\ pc = "call" /\ entry = "check_integrity"
    /\ pc' = "fs_stat"
    /\ UNCHANGED <<inputs, segment_container, object_stat, md5_locals, calls,
                   size_result, md5_result, result>>

\* both operands evaluated whatever the left one returned
and_evaluates_right_always(left) == left.kind = "return"

\* line 77: whether `and` goes on to evaluate md5_check
and_evaluates_right(left) == left = Return(TRUE)

\* check_integrity, lines 73-83, once filesize_check has finished: an
\* exception propagates, False is the value of the `and`, True goes on
CheckIntegrityAnd ==
    /\ pc = "fs_return" /\ entry = "check_integrity"
    /\ IF and_evaluates_right(size_result)
       THEN /\ pc' = "md5_stat"
            /\ result' = result
       ELSE /\ pc' = "done"
            /\ result' = size_result
    /\ UNCHANGED <<inputs, segment_container, object_stat, md5_locals, calls,
                   size_result, md5_result>>

\* filesize_check returns to a direct caller
FilesizeReturn ==
    /\ pc = "fs_return" /\ entry = "filesize_check"
    /\ pc' = "done"
    /\ result' = size_result
    /\ UNCHANGED <<inputs, segment_container, object_stat, md5_locals, calls,
                   size_result, md5_result>>

\* md5_check returns: to a direct caller, or as the value of the `and`
Md5Return ==
    /\ pc = "md5_return"
    /\ pc' = "done"
    /\ result' = md5_result
    /\ UNCHANGED <<inputs, segment_container, object_stat, md5_locals, calls,
                   size_result, md5_result>>

(* ---------------------------- filesize_check -------------------------- *)
\* lines 97-100
FilesizeStat ==
    /\ pc = "fs_stat"
    /\ object_stat' = swift_object_stat
    /\ calls' = Append(calls, Call("filesize_check", "stat", object_container))
    /\ pc' = "fs_check"
    /\ UNCHANGED <<inputs, segment_container, md5_locals, size_result,
                   md5_result, result>>

\* lines 102-111
FilesizeCheck ==
    /\ pc = "fs_check"
    /\ size_result' = filesize_outcome(object_stat, local_file)
    /\ pc' = "fs_return"
    /\ UNCHANGED <<inputs, segment_container, object_stat, md5_locals, calls,
                   md5_result, result>>

(* ------------------------------ md5_check ----------------------------- *)
\* lines 135-147: int(segment_size) succeeds for an int; swift stat
Md5Stat ==
    /\ pc = "md5_stat"
    /\ object_stat' = swift_object_stat
    /\ calls' = Append(calls, Call("md5_check", "stat", object_container))
    /\ pc' = "md5_branch"
    /\ UNCHANGED <<inputs, segment_container, md5_locals, size_result,
                   md5_result, result>>

\* lines 149-150: swift stat returned nothing
Md5StatEmpty ==
    /\ pc = "md5_branch"
    /\ object_stat = <<>>
    /\ md5_result' = Raise("AttributeError")
    /\ pc' = "md5_return"
    /\ UNCHANGED <<inputs, segment_container, object_stat, md5_locals, calls,
                   size_result, result>>

\* a missing ETag reported as "does not match" instead of an error
Md5NoETagReturnsFalse ==
    /\ pc = "md5_branch"
    /\ object_stat # <<>>
    /\ ~manifest_search_of(object_stat).matched
    /\ ~etag_search_of(object_stat).matched
    /\ md5_result' = Return(FALSE)
    /\ pc' = "md5_return"
    /\ UNCHANGED <<inputs, segment_container, object_stat, md5_locals, calls,
                   size_result, result>>

\* lines 152-157: no Manifest and no ETag
Md5NoETag ==
    /\ pc = "md5_branch"
    /\ object_stat # <<>>
    /\ ~manifest_search_of(object_stat).matched
    /\ ~etag_search_of(object_stat).matched
    /\ md5_result' = Raise("AttributeError")
    /\ pc' = "md5_return"
    /\ UNCHANGED <<inputs, segment_container, object_stat, md5_locals, calls,
                   size_result, result>>

\* lines 152-160: not segmented, the ETag is the remote md5
Md5NotSegmented ==
    /\ pc = "md5_branch"
    /\ object_stat # <<>>
    /\ ~manifest_search_of(object_stat).matched
    /\ etag_search_of(object_stat).matched
    /\ remote_md5' = strip(etag_search_of(object_stat).group)
    /\ pc' = "md5_whole"
    /\ UNCHANGED <<inputs, segment_container, object_stat, segments,
                   remote_segment_md5s, segment_size, local_segment_md5s,
                   file_open, file_pos, reads, calls, size_result, md5_result,
                   result>>

\* lines 161-166: the md5 of the whole local file against the ETag
Md5Whole ==
    /\ pc = "md5_whole"
    /\ reads' = Append(reads, Len(file_read(local_file, 0, -1)))
    /\ calls' = Append(calls, Call("md5_check", "read", "local"))
    /\ md5_result' = Return(whole_md5_equal(
                              strip(md5_hexdigest(file_read(local_file, 0, -1))),
                              remote_md5))
    /\ pc' = "md5_return"
    /\ UNCHANGED <<inputs, segment_container, object_stat, remote_md5, segments,
                   remote_segment_md5s, segment_size, local_segment_md5s,
                   file_open, file_pos, size_result, result>>

\* lines 152, 167-174: segmented; resolve the segment container and list
\* the segments (the listing is whatever the container holds)
Md5List ==
    /\ pc = "md5_branch"
    /\ object_stat # <<>>
    /\ manifest_search_of(object_stat).matched
    /\ segment_container' = resolve_segment_container(segment_container)
    /\ \E listing \in Listings(resolve_segment_container(segment_container)) :
          segments' = split(strip(JoinLines(listing)))
    /\ calls' = Append(calls, Call("md5_check", "list",
                                   resolve_segment_container(segment_container)))
    /\ pc' = "md5_seg_stat"
    /\ UNCHANGED <<inputs, object_stat, remote_md5, remote_segment_md5s,
                   segment_size, local_segment_md5s, file_open, file_pos, reads,
                   size_result, md5_result, result>>

\* lines 177-186: one swift stat per segment, the ETags collected in a set
Md5SegmentStats ==
    /\ pc = "md5_seg_stat"
    /\ calls' = calls \o [i \in 1..Len(segments) |->
                            Call("md5_check", "stat", segment_container)]
    /\ IF segments_have_etag(segment_container, segments)
       THEN /\ remote_segment_md5s' =
                  remote_segment_md5s_of(segment_container, segments)
            /\ pc' = "md5_seg_size"
            /\ md5_result' = md5_result
       ELSE /\ remote_segment_md5s' = remote_segment_md5s
            /\ pc' = "md5_return"
            /\ md5_result' = Raise("AttributeError")
    /\ UNCHANGED <<inputs, segment_container, object_stat, remote_md5, segments,
                   segment_size, local_segment_md5s, file_open, file_pos, reads,
                   size_result, result>>

\* line 189: the segment size, given or taken from the first segment's name
Md5SegmentSize ==
    /\ pc = "md5_seg_size"
    /\ IF segment_size_of(segment_size, segments).exc = "none"
       THEN /\ segment_size' = segment_size_of(segment_size, segments).size
            /\ pc' = "md5_open"
            /\ md5_result' = md5_result
       ELSE /\ segment_size' = segment_size
            /\ pc' = "md5_return"
            /\ md5_result' = Raise(segment_size_of(segment_size, segments).exc)
    /\ UNCHANGED <<inputs, segment_container, object_stat, remote_md5, segments,
                   remote_segment_md5s, local_segment_md5s, file_open, file_pos,
                   reads, calls, size_result, result>>

\* lines 192-193: the empty set, and the file opened
Md5Open ==
    /\ pc = "md5_open"
    /\ local_segment_md5s' = {}
    /\ file_open' = TRUE
    /\ file_pos' = 0
    /\ pc' = "md5_read"
    /\ UNCHANGED <<inputs, segment_container, object_stat, remote_md5, segments,
                   remote_segment_md5s, segment_size, reads, calls, size_result,
                   md5_result, result>>

\* lines 194-195: a read that returns data; its digest joins the set
Md5ReadChunk ==
    /\ pc = "md5_read"
    /\ file_read(local_file, file_pos, segment_size) # <<>>
    /\ local_segment_md5s' = local_segment_md5s \cup
          {strip(md5_hexdigest(file_read(local_file, file_pos, segment_size)))}
    /\ file_pos' = file_pos + Len(file_read(local_file, file_pos, segment_size))
    /\ reads' = Append(reads, Len(file_read(local_file, file_pos, segment_size)))
    /\ calls' = Append(calls, Call("md5_check", "read", "local"))
    /\ UNCHANGED <<inputs, segment_container, pc, object_stat, remote_md5,
                   segments, remote_segment_md5s, segment_size, file_open,
                   size_result, md5_result, result>>

\* lines 194, 198: a read that returns '' ends the loop; the with-block
\* closes the file and the two sets are compared
Md5ReadEnd ==
    /\ pc = "md5_read"
    /\ file_read(local_file, file_pos, segment_size) = <<>>
    /\ reads' = Append(reads, 0)
    /\ calls' = Append(calls, Call("md5_check", "read", "local"))
    /\ file_open' = FALSE
    /\ md5_result' = Return(segment_sets_equal(local_segment_md5s,
                                               remote_segment_md5s))
    /\ pc' = "md5_return"
    /\ UNCHANGED <<inputs, segment_container, object_stat, remote_md5, segments,
                   remote_segment_md5s, segment_size, local_segment_md5s,
                   file_pos, size_result, result>>

Next ==
    \/ CallFilesizeCheck
    \/ CallMd5Check
    \/ CallCheckIntegrity
    \/ CheckIntegrityAnd
    \/ FilesizeReturn
    \/ Md5Return
    \/ FilesizeStat
    \/ FilesizeCheck
    \/ Md5Stat
    \/ Md5StatEmpty
    \/ Md5NoETag
    \/ Md5NotSegmented
    \/ Md5Whole
    \/ Md5List
    \/ Md5SegmentStats
    \/ Md5SegmentSize
    \/ Md5Open
    \/ Md5ReadChunk
    \/ Md5ReadEnd

Spec == Init /\ [][Next]_vars

\* the code is one sequential thread and nothing in the read loop blocks:
\* once the file is open, the step that is enabled is taken
FairSpec ==
    /\ Spec
    /\ WF_vars(Md5Open)
    /\ WF_vars(Md5ReadChunk)
    /\ WF_vars(Md5ReadEnd)
    /\ WF_vars(Md5Return)

(* ==================== vocabulary of the properties ==================== *)
\* the metadata record read off a stat output line by line: the value of
\* the first line labelled lit, without the whitespace around it
LabelStarts(text, lit) == {i \in 1..Len(text) : StartsWithAt(text, i, lit)}

FieldValue(text, lit) ==
    LET i0 == CHOOSE i \in LabelStarts(text, lit) :
                  \A j \in LabelStarts(text, lit) : i <= j
        from == i0 + Len(lit)
    IN strip(SubSeq(text, from,
                    from + RunLen(text, from, CharUniverse \ {"\n"}) - 1))

HasField(text, lit) ==
    LabelStarts(text, lit) # {} /\ FieldValue(text, lit) # <<>>

\* the metadata records of the remote objects, read once
Record(text) ==
    [manifest |-> HasField(text, ManifestLit),
     has_digest |-> HasField(text, ETagLit),
     digest |-> IF HasField(text, ETagLit) THEN FieldValue(text, ETagLit) ELSE <<>>,
     has_size |-> HasField(text, ContentLengthLit),
     size |-> IF HasField(text, ContentLengthLit)
              THEN FieldValue(text, ContentLengthLit) ELSE <<>>]
ObjectRecords == [t \in ObjectStats |-> Record(t)]
SegmentRecords == [o \in SegmentObjects |-> Record(o.stat)]

\* the remote object is segmented / carries a content digest
ManifestPresent == ObjectRecords[swift_object_stat].manifest
DigestPresent == ObjectRecords[swift_object_stat].has_digest
RemoteDigest == ObjectRecords[swift_object_stat].digest
SegmentDigest(seg) ==
    SegmentRecords[SegmentObject(segment_container, seg)].digest
SegmentHasDigest(seg) ==
    SegmentRecords[SegmentObject(segment_container, seg)].has_digest

Md5Finished == md5_result # Pending
SegmentedFinished == Md5Finished /\ ManifestPresent
SegmentedReturned == md5_result.kind = "return" /\ ManifestPresent

\* the local file cut at multiples of S: ceil(length / S) chunks
NumChunks(file, S) == (Len(file) + S - 1) \div S
ChunkAt(file, S, k) == SubSeq(file, (k - 1) * S + 1, Min(k * S, Len(file)))
ChunkDigests(file, S) ==
    {md5_hexdigest(ChunkAt(file, S, k)) : k \in 1..NumChunks(file, S)}
RemoteDigests == {SegmentDigest(segments[i]) : i \in 1..Len(segments)}

Md5Calls == {i \in 1..Len(calls) : calls[i].by = "md5_check"}

\* the second-to-last '/'-separated component of a segment identifier
Slashes(seg) == {i \in 1..Len(seg) : seg[i] = "/"}
LastSlash(seg) == CHOOSE i \in Slashes(seg) : \A j \in Slashes(seg) : j <= i
PrevSlash(seg) ==
    LET before == {i \in Slashes(seg) : i < LastSlash(seg)}
    IN IF before = {} THEN 0 ELSE CHOOSE i \in before : \A j \in before : j <= i
SizeComponentPresent(seg) == Slashes(seg) # {}
SizeComponent(seg) == SubSeq(seg, PrevSlash(seg) + 1, LastSlash(seg) - 1)
EncodesNatural(text) ==
    /\ text # <<>>
    /\ \A k \in 1..Len(text) : text[k] \in DigitChars
Unsigned(text) ==
    IF text # <<>> /\ text[1] \in {"+", "-"} THEN SubSeq(text, 2, Len(text)) ELSE text
EncodesInteger(text) == EncodesNatural(Unsigned(text))
IntegerValue(text) ==
    IF text[1] = "-" THEN 0 - DecimalValue(Unsigned(text))
    ELSE DecimalValue(Unsigned(text))

\* the size the first listed identifier encodes, when it encodes one
InferableSize ==
    /\ segments # <<>>
    /\ SizeComponentPresent(segments[1])
    /\ EncodesInteger(SizeComponent(segments[1]))
InferredSize == IntegerValue(SizeComponent(segments[1]))
AllSegmentsHaveDigest == \A i \in 1..Len(segments) : SegmentHasDigest(segments[i])

\* the permutations of a sequence
ListingPermutations(seq) ==
    {[i \in 1..Len(seq) |-> seq[f[i]]] :
        f \in {g \in [1..Len(seq) -> 1..Len(seq)] :
                 \A a, b \in 1..Len(seq) : a # b => g[a] # g[b]}}

\* g and f have the same length and differ in exactly one byte
DiffersInOneByte(f, g) ==
    /\ Len(f) = Len(g)
    /\ Cardinality({i \in 1..Len(f) : f[i] # g[i]}) = 1

(* ============================= properties ============================= *)

C2_SingleByteChangeDetected ==
    (SegmentedReturned /\ segment_size > 0) =>
        \A orig \in LocalFiles :
            ( /\ Len(segments) = NumChunks(orig, segment_size)
              /\ \A k \in 1..Len(segments) :
                    SegmentDigest(segments[k])
                        = md5_hexdigest(ChunkAt(orig, segment_size, k))
              /\ DiffersInOneByte(local_file, orig) )
            => md5_result.value = FALSE

\* C3 as stated: on the non-segmented path md5_check returns true exactly
\* when the whole-file digest equals the remote digest, ignoring letter case
\* and surrounding whitespace of the remote digest.
C3_CaseInsensitiveMatch ==
    (md5_result.kind = "return" /\ ~ManifestPresent /\ DigestPresent) =>
        md5_result.value = (ToLower(md5_hexdigest(local_file)) = ToLower(RemoteDigest))

\* C3 as amended: on the non-segmented path md5_check returns true exactly
\* when the lower-case hex digest of the whole file equals the remote digest
\* character for character, surrounding whitespace of the remote digest
\* ignored; letter case is significant.
C3_ExactMatch ==
    (Md5Finished /\ ~ManifestPresent /\ DigestPresent) =>
        md5_result = Return(md5_hexdigest(local_file) = RemoteDigest)

C3_Witness ==
    /\ md5_result = Return(TRUE) /\ ~ManifestPresent
    /\ Len(local_file) = 2
    /\ \E i \in 1..Len(swift_object_stat) - 2 :
          swift_object_stat[i] \in ClassW /\ swift_object_stat[i + 1] = " "
              /\ swift_object_stat[i + 2] = "\n"

\* C4: whenever a total size can be parsed from the metadata record,
\* filesize_check returns (never raises) the truth of "the parsed size equals
\* the local file's byte length", the empty file against size 0 included.
C4_SizeMatches ==
    ( /\ size_result # Pending
      /\ ObjectRecords[swift_object_stat].has_size
      /\ EncodesNatural(ObjectRecords[swift_object_stat].size) ) =>
        size_result = Return(DecimalValue(ObjectRecords[swift_object_stat].size)
                               = Len(local_file))

C4_Witness ==
    /\ size_result = Return(TRUE)
    /\ local_file = <<>>

\* C5: check_integrity is a short-circuiting AND: when the size check
\* returned false no step of the digest check is ever taken and the result
\* is false; the digest check runs only after the size check returned true,
\* and then the result is the digest check's.
C5_ShortCircuit ==
    entry = "check_integrity" =>
        /\ size_result = Return(FALSE) =>
              /\ Md5Calls = {}
              /\ md5_result = Pending
              /\ pc \in {"fs_return", "done"}
              /\ pc = "done" => result = Return(FALSE)
        /\ (Md5Calls # {} \/ md5_result # Pending
              \/ pc \notin {"call", "fs_stat", "fs_check", "fs_return", "done"})
              => size_result = Return(TRUE)
        /\ (pc = "done" /\ size_result = Return(TRUE)) => result = md5_result

C5_Witness ==
    /\ entry = "check_integrity" /\ pc = "done"
    /\ size_result = Return(FALSE) /\ result = Return(FALSE)
    /\ ManifestPresent /\ Len(local_file) = 3

\* C6: on the segmented path the effective segment size is the hint when
\* the hint is non-zero (the identifiers are then not parsed: a malformed
\* identifier causes no error), and otherwise the integer in the
\* second-to-last '/'-component of the first listed identifier; if that
\* component is absent or no integer the check ends in an error.
C6_EffectiveSegmentSize ==
    /\ (pc \in {"md5_open", "md5_read"} \/ SegmentedReturned) =>
          /\ hint = 0 => InferableSize
          /\ segment_size = IF hint # 0 THEN hint ELSE InferredSize
    /\ (SegmentedFinished /\ hint # 0 /\ AllSegmentsHaveDigest)
          => md5_result.kind = "return"
    /\ (SegmentedFinished /\ hint = 0 /\ segments # <<>> /\ ~InferableSize)
          => md5_result.kind = "raise"

C6_Witness ==
    /\ SegmentedReturned /\ hint = 0
    /\ segment_size = 2 /\ Len(segments) = 2

\* C7: a non-empty metadata record with neither a manifest reference nor a
\* content digest ends md5_check in a field-missing error, never a boolean,
\* for every local file; an empty record ends in an error too.
C7_MissingFieldsRaise ==
    (Md5Finished /\ ~ManifestPresent /\ ~DigestPresent) =>
        /\ md5_result = Raise("AttributeError")
        /\ pc = "done" => result = Raise("AttributeError")

C7_Witness ==
    /\ entry = "md5_check" /\ pc = "done"
    /\ swift_object_stat # <<>> /\ ~ManifestPresent /\ ~DigestPresent
    /\ result.kind = "raise"

\* C8 as stated: the outcome of the segmented path is the same for every
\* permutation of the listing (same metadata, file and hint, hint 0 included).
C8_AnyOrderSameOutcome ==
    SegmentedFinished =>
        \A q \in ListingPermutations(segments) :
            md5_check_segmented(local_file, hint, segment_container, q) = md5_result

\* C8 as amended: the outcome is the same for every permutation of the
\* listing when the hint is non-zero, and with hint 0 for every permutation
\* that keeps the first identifier (the one the size is inferred from).
C8_OrderIndependentGivenSize ==
    SegmentedFinished =>
        \A q \in ListingPermutations(segments) :
            (hint # 0 \/ segments = <<>> \/ q[1] = segments[1]) =>
                md5_check_segmented(local_file, hint, segment_container, q) = md5_result

C8_Witness ==
    /\ SegmentedReturned /\ md5_result.value
    /\ Len(segments) = 3 /\ hint = 1

\* C9: with a manifest reference but an empty segment listing, md5_check
\* with hint 0 ends in an error; with a non-zero hint it returns true
\* exactly when the local file is empty.
C9_EmptyListing ==
    (SegmentedFinished /\ segments = <<>>) =>
        IF hint = 0 THEN md5_result.kind = "raise"
        ELSE md5_result = Return(local_file = <<>>)

C9_Witness ==
    /\ SegmentedFinished /\ segments = <<>>
    /\ hint # 0 /\ md5_result = Return(TRUE)

\* what the reads of a finished segmented check were: for S > 0 exactly
\* ceil(length/S) non-empty reads and then one empty read; for size 0 a
\* single empty read and an empty local digest set; for a negative size the
\* whole file at once (nothing, for an empty file) and then the empty read
C10_ReadsDone ==
    SegmentedReturned =>
        /\ ~file_open
        /\ segment_size > 0 =>
              reads = [k \in 1..NumChunks(local_file, segment_size) |->
                          Len(ChunkAt(local_file, segment_size, k))] \o <<0>>
        /\ segment_size = 0 => (reads = <<0>> /\ local_segment_md5s = {})
        /\ segment_size < 0 =>
              reads = IF local_file = <<>> THEN <<0>> ELSE <<Len(local_file), 0>>

\* C10: once the remote metadata is obtained and the file is opened, the
\* chunked read terminates for every local file and segment size: the reads
\* are as C10_ReadsDone says, and the check then returns a boolean with the
\* file closed.
C10_ReadLoopTerminates ==
    /\ []C10_ReadsDone
    /\ (pc = "md5_open") ~> (pc = "done" /\ result.kind = "return" /\ ~file_open)

C10_Witness ==
    /\ SegmentedReturned /\ pc = "done"
    /\ segment_size = 1 /\ Len(reads) = 4

====
